---- MODULE Spec2Model ----
(***************************************************************************)
(* Model of client.py: a peer of the UDP multicast chat.  One process runs *)
(* three threads over one socket and one dictionary:                       *)
(*   listen_for_messages (daemon thread)  - receives and dispatches        *)
(*   discovery_loop      (daemon thread)  - broadcasts JOIN every 3 s      *)
(*   the main thread                      - sends CHAT, then LEAVE, closes *)
(* Strings are sequences of one-character strings; startswith and split    *)
(* are computed on them as Python computes them.                           *)
(***************************************************************************)
EXTENDS Integers, Sequences, FiniteSets, TLC

\* ---------------------------------------------------------------- bounds
NumKeys == 2
TextLen == 1

\* ------------------------------------------------------------ input sets
\* public keys that can appear on the wire; OwnKey is this node's key
Keys == 1 .. NumKeys
OwnKey == 1

\* usernames a peer can announce
Names == { <<"a">>, <<"b">> }

\* usernames typed at the prompt of this node
LocalNames == { <<"a">> }

\* the text typed after the prompt, or carried by a chat line
Texts == { [i \in 1 .. TextLen |-> "x"] }

\* the separator of "<sender>: <text>"
Sep == <<":", " ">>

\* decrypted chat lines: "<name>: <text>", and a bare "<name>" without separator
Plaintexts == { n \o Sep \o t : n \in Names, t \in Texts } \cup Names

\* ------------------------------------------------------- string helpers
\* str.startswith
StartsWith(s, p) == Len(s) >= Len(p) /\ SubSeq(s, 1, Len(p)) = p

\* positions at which sep occurs in s
Occurrences(s, sep) ==
    { i \in 1 .. Len(s) : i + Len(sep) - 1 <= Len(s)
                          /\ SubSeq(s, i, i + Len(sep) - 1) = sep }

\* s.split(": ")[0]
SplitFirst(s) ==
    IF Occurrences(s, Sep) = {} THEN s
    ELSE LET i == CHOOSE j \in Occurrences(s, Sep) :
                      \A k \in Occurrences(s, Sep) : j <= k
         IN  SubSeq(s, 1, i - 1)

\* ---------------------------------------------------------- wire values
\* One field of the pickled 5-tuple.  kind: "null" is config.NULL_BYTE,
\* "enc" a ciphertext of crypto_utils.pack_data, "sig" a signature,
\* "raw" plain utf-8 bytes, "junk" bytes that are none of these.
Blob(kind, str, key, n, intact) ==
    [kind |-> kind, str |-> str, key |-> key, n |-> n, intact |-> intact]

NULL_BYTE == Blob("null", <<>>, 0, 0, TRUE)
Junk == Blob("junk", <<>>, 0, 0, FALSE)

\* the nonce a ciphertext was made with, and one that does not match it
GoodNonce == Blob("raw", <<>>, 0, 1, TRUE)
BadNonce == Blob("raw", <<>>, 0, 2, TRUE)

\* pack_data(text, sign=False): ciphertext of a string
EncStr(s, intact) == Blob("enc", s, 0, 1, intact)
\* pack_data(key, sign=False): ciphertext of a public key
EncKey(k, intact) == Blob("enc", <<>>, k, 1, intact)
\* the signature pack_data(text) returns: made with the private key of k over m
Sign(k, m) == Blob("sig", m, k, 0, TRUE)
\* username.encode('utf-8')
Raw(s) == Blob("raw", s, 0, 0, TRUE)

\* crypto_utils.unpack_data succeeds: authentic ciphertext and the right nonce
DecryptOk(ct, nonce) ==
    ct.kind = "enc" /\ ct.intact /\ nonce.kind = "raw" /\ ct.n = nonce.n

\* crypto_utils.verify_signature(public_key, signature, message)
verify_signature(pk, sig, msg) ==
    sig.kind = "sig" /\ sig.key = pk /\ sig.str = msg

\* a datagram: shape "ok" unpickles to a 5-tuple, the other shapes do not
Dgram(shape, mtype, f2, f3, f4, f5) ==
    [shape |-> shape, mtype |-> mtype, f2 |-> f2, f3 |-> f3, f4 |-> f4, f5 |-> f5]

NoPayload == Dgram("none", "", NULL_BYTE, NULL_BYTE, NULL_BYTE, NULL_BYTE)

\* pickle.dumps(("JOIN", ...)) of discovery_loop
JoinMsg(u, k) == Dgram("ok", "JOIN", EncStr(u, TRUE), GoodNonce, EncKey(k, TRUE), GoodNonce)
\* pickle.dumps(("CHAT", ...)) of the main loop
ChatMsg(line, k) == Dgram("ok", "CHAT", EncStr(line, TRUE), GoodNonce, Sign(k, line), NULL_BYTE)
\* pickle.dumps(("LEAVE", ...)) of the shutdown sequence
LeaveMsg(u) == Dgram("ok", "LEAVE", Raw(u), NULL_BYTE, NULL_BYTE, NULL_BYTE)

\* a line that differs from m (a signature over it does not cover m)
Tamper(m) == m \o <<"!">>

\* payloads pickle.loads or the tuple unpacking rejects
Malformed ==
    { Dgram(sh, "", NULL_BYTE, NULL_BYTE, NULL_BYTE, NULL_BYTE) :
        sh \in {"truncated", "arity", "typeconfused"} }

\* the values the signature field of a CHAT carrying line p can hold
SigChoices(p) ==
    { Sign(k, p) : k \in Keys } \cup { Sign(k, Tamper(p)) : k \in Keys } \cup { NULL_BYTE }

\* a line some peer may have sent, used in the datagrams that fail to decrypt
SomeLine == <<"b">> \o Sep

ChatDatagrams ==
    UNION { { Dgram("ok", "CHAT", EncStr(p, TRUE), GoodNonce, s, NULL_BYTE) :
                s \in SigChoices(p) } : p \in Plaintexts }
    \cup { Dgram("ok", "CHAT", EncStr(SomeLine, FALSE), GoodNonce, Sign(OwnKey, SomeLine), NULL_BYTE),
           Dgram("ok", "CHAT", EncStr(SomeLine, TRUE), BadNonce, Sign(OwnKey, SomeLine), NULL_BYTE),
           Dgram("ok", "CHAT", Junk, GoodNonce, NULL_BYTE, NULL_BYTE) }

JoinDatagrams ==
    { JoinMsg(u, k) : u \in Names, k \in Keys }
    \cup { Dgram("ok", "JOIN", EncStr(<<"b">>, FALSE), GoodNonce, EncKey(OwnKey, TRUE), GoodNonce),
           Dgram("ok", "JOIN", EncStr(<<"b">>, TRUE), GoodNonce, EncKey(OwnKey, FALSE), GoodNonce),
           Dgram("ok", "JOIN", EncStr(<<"b">>, TRUE), GoodNonce, EncKey(OwnKey, TRUE), BadNonce) }

LeaveDatagrams ==
    { LeaveMsg(u) : u \in Names }
    \cup { Dgram("ok", "LEAVE", Junk, NULL_BYTE, NULL_BYTE, NULL_BYTE) }

OtherDatagrams ==
    { Dgram("ok", "PING", NULL_BYTE, NULL_BYTE, NULL_BYTE, NULL_BYTE) }

\* everything recvfrom can return
Datagrams ==
    Malformed \cup ChatDatagrams \cup JoinDatagrams \cup LeaveDatagrams \cup OtherDatagrams

\* ------------------------------------------------------- console lines
Line(kind, text) == [kind |-> kind, text |-> text]
NoLine == Line("none", <<>>)

\* ------------------------------------------------------------ the state
VARIABLES
    username,      \* the local username read at startup
    known_peers,   \* dict: username -> public key
    sock,          \* client_socket: "open" or "closed"
    listener_pc,   \* listen_for_messages: "recv", "dispatch", "verify" (between the
                   \* membership test and the key read of a CHAT) or "done"
    payload,       \* the datagram the listener received last
    caught,        \* errno of the OSError the listener caught last, or "none"
    out,           \* what the listener has printed in this pass through its loop
    discovery_pc,  \* discovery_loop: "run" or "done"
    main_pc,       \* main thread: "input", "wait", "leave", "close", "closed", and
                   \* the process over: "exited" (end of script), "crashed" (uncaught
                   \* exception in the input loop), "aborted" (uncaught exception
                   \* in the shutdown sequence)
    wire,          \* the datagrams this node has sent to the multicast group
    before,        \* history: known_peers as it was when this pass began
    departed,      \* history: names a LEAVE was handled for, no JOIN since
    shown,         \* history: names a chat line was displayed for
    welcomed,      \* history: names welcomed, no LEAVE naming them handled since
    first_key,     \* history: name -> key of the first JOIN handled for it since
                   \* the last LEAVE naming it (or since startup)
    late           \* history: types of the datagrams sent after the LEAVE was sent

vars == << username, known_peers, sock, listener_pc, payload, caught, out,
           discovery_pc, main_pc, wire, before, departed, shown, welcomed,
           first_key, late >>

\* the history variables
hist == << before, departed, shown, welcomed, first_key, late >>

\* ------------------------------------------------- the peer dictionary
EmptyPeers == [u \in {} |-> 0]

\* known_peers[u] = k
Store(peers, u, k) ==
    [v \in DOMAIN peers \cup {u} |-> IF v = u THEN k ELSE peers[v]]

\* del known_peers[u]
Delete(peers, u) == [v \in DOMAIN peers \ {u} |-> peers[v]]

\* ------------------------------------------- listen_for_messages: body
\* The result of one pass through the loop body: the dictionary, the line
\* printed, and where the loop goes ("recv": next iteration, "done": break).
Result(peers, line, pc) == [peers |-> peers, out |-> line, pc |-> pc]

\* an exception handler that also empties the dictionary before it breaks
Broken_Reset(peers) == Result(EmptyPeers, Line("error", <<>>), "done")

\* except Exception: print and break
Broken(peers) == Result(peers, Line("error", <<>>), "done")

\* raw_received_message.split(": ")[0]
sender_username(d) == SplitFirst(d.f2.str)

\* HandleChat without the signature check: a known sender is displayed at once
HandleChat_NoVerify(d, peers, me) ==
    IF ~ DecryptOk(d.f2, d.f3) THEN Broken(peers)
    ELSE IF StartsWith(d.f2.str, me \o Sep) THEN Result(peers, NoLine, "recv")
    ELSE IF sender_username(d) \notin DOMAIN peers THEN Result(peers, NoLine, "recv")
    ELSE Result(peers, Line("chat", d.f2.str), "recv")

\* HandleChat that trusts an unknown sender on first use: it stores the key
\* that made the signature and displays the line
HandleChat_TrustFirst(d, peers, me) ==
    IF ~ DecryptOk(d.f2, d.f3) THEN Broken(peers)
    ELSE IF StartsWith(d.f2.str, me \o Sep) THEN Result(peers, NoLine, "recv")
    ELSE IF sender_username(d) \notin DOMAIN peers
         THEN IF verify_signature(d.f4.key, d.f4, d.f2.str)
              THEN Result(Store(peers, sender_username(d), d.f4.key),
                          Line("chat", d.f2.str), "recv")
              ELSE Result(peers, NoLine, "recv")
    ELSE IF verify_signature(peers[sender_username(d)], d.f4, d.f2.str)
         THEN Result(peers, Line("chat", d.f2.str), "recv")
    ELSE Result(peers, NoLine, "recv")

\* HandleChat that accepts a signature made by the key of any known peer
HandleChat_AnyKey(d, peers, me) ==
    IF ~ DecryptOk(d.f2, d.f3) THEN Broken(peers)
    ELSE IF StartsWith(d.f2.str, me \o Sep) THEN Result(peers, NoLine, "recv")
    ELSE IF sender_username(d) \notin DOMAIN peers THEN Result(peers, NoLine, "recv")
    ELSE IF \E v \in DOMAIN peers : verify_signature(peers[v], d.f4, d.f2.str)
         THEN Result(peers, Line("chat", d.f2.str), "recv")
    ELSE Result(peers, NoLine, "recv")

\* CHAT: decrypt; skip a line that starts with "<me>: "; skip an unknown
\* sender; print the line if its signature verifies against the stored key
HandleChat(d, peers, me) ==
    IF ~ DecryptOk(d.f2, d.f3) THEN Broken(peers)
    ELSE IF StartsWith(d.f2.str, me \o Sep) THEN Result(peers, NoLine, "recv")
    ELSE IF sender_username(d) \notin DOMAIN peers THEN Result(peers, NoLine, "recv")
    ELSE IF verify_signature(peers[sender_username(d)], d.f4, d.f2.str)
         THEN Result(peers, Line("chat", d.f2.str), "recv")
    ELSE Result(peers, NoLine, "recv")

\* HandleJoin that rebinds known_peers to a new one-entry dict
HandleJoin_Rebind(d, peers, me) ==
    IF ~ DecryptOk(d.f2, d.f3) \/ ~ DecryptOk(d.f4, d.f5) THEN Broken(peers)
    ELSE IF d.f2.str \notin DOMAIN peers
         THEN Result(Store(EmptyPeers, d.f2.str, d.f4.key), Line("welcome", d.f2.str), "recv")
    ELSE Result(peers, NoLine, "recv")

\* HandleJoin without the membership test: the newest key wins
HandleJoin_Update(d, peers, me) ==
    IF ~ DecryptOk(d.f2, d.f3) \/ ~ DecryptOk(d.f4, d.f5) THEN Broken(peers)
    ELSE Result(Store(peers, d.f2.str, d.f4.key),
                IF d.f2.str \notin DOMAIN peers THEN Line("welcome", d.f2.str) ELSE NoLine,
                "recv")

\* HandleJoin that prints the welcome for every JOIN it decrypts
HandleJoin_AlwaysWelcome(d, peers, me) ==
    IF ~ DecryptOk(d.f2, d.f3) \/ ~ DecryptOk(d.f4, d.f5) THEN Broken(peers)
    ELSE IF d.f2.str \notin DOMAIN peers
         THEN Result(Store(peers, d.f2.str, d.f4.key), Line("welcome", d.f2.str), "recv")
    ELSE Result(peers, Line("welcome", d.f2.str), "recv")

\* JOIN: decrypt the username and the key; store and welcome a new username
HandleJoin(d, peers, me) ==
    IF ~ DecryptOk(d.f2, d.f3) \/ ~ DecryptOk(d.f4, d.f5) THEN Broken(peers)
    ELSE IF d.f2.str \notin DOMAIN peers
         THEN Result(Store(peers, d.f2.str, d.f4.key), Line("welcome", d.f2.str), "recv")
    ELSE Result(peers, NoLine, "recv")

\* HandleLeave that clears the whole dict
HandleLeave_Clear(d, peers, me) ==
    IF d.f2.kind # "raw" THEN Broken(peers)
    ELSE IF d.f2.str \in DOMAIN peers
         THEN Result(EmptyPeers, Line("left", d.f2.str), "recv")
    ELSE Result(peers, Line("left", d.f2.str), "recv")

\* HandleLeave that prints the notice and forgets to delete the entry
HandleLeave_Keep(d, peers, me) ==
    IF d.f2.kind # "raw" THEN Broken(peers)
    ELSE Result(peers, Line("left", d.f2.str), "recv")

\* LEAVE: decode the name (utf-8 bytes, or bytes that do not decode), print
\* the notice, delete the entry if there is one
HandleLeave(d, peers, me) ==
    IF d.f2.kind # "raw" THEN Broken(peers)
    ELSE IF d.f2.str \in DOMAIN peers
         THEN Result(Delete(peers, d.f2.str), Line("left", d.f2.str), "recv")
    ELSE Result(peers, Line("left", d.f2.str), "recv")

\* an else branch that treats an unknown message type as an error and leaves the loop
HandleUnknown_Break(d, peers, me) == Broken(peers)

\* any other message type: print and continue
HandleUnknown(d, peers, me) == Result(peers, Line("unknown", <<>>), "recv")

\* unpickle, dispatch on the message type, catch
Handle(d, peers, me) ==
    IF d.shape # "ok" THEN Broken(peers)
    ELSE IF d.mtype = "CHAT" THEN HandleChat(d, peers, me)
    ELSE IF d.mtype = "JOIN" THEN HandleJoin(d, peers, me)
    ELSE IF d.mtype = "LEAVE" THEN HandleLeave(d, peers, me)
    ELSE HandleUnknown(d, peers, me)

\* --------------------------------------------------------------- Init
Init ==
    /\ username \in LocalNames
    /\ known_peers = EmptyPeers
    /\ sock = "open"
    /\ listener_pc = "recv"
    /\ payload = NoPayload
    /\ caught = "none"
    /\ out = NoLine
    /\ discovery_pc = "run"
    /\ main_pc = "input"
    /\ wire = {}
    /\ before = EmptyPeers
    /\ departed = {}
    /\ shown = {}
    /\ welcomed = {}
    /\ first_key = EmptyPeers
    /\ late = {}

\* the process, and with it its daemon threads, is still running
Alive == main_pc \notin {"exited", "crashed", "aborted"}

\* ------------------------------------------------- listen_for_messages
\* recvfrom returns one of this node's own datagrams, which multicast
\* loopback delivers to the sender too: a new pass through the loop body begins
RecvLoopback ==
    /\ Alive /\ listener_pc = "recv" /\ sock = "open"
    /\ \E d \in wire : payload' = d
    /\ caught' = "none"
    /\ out' = NoLine
    /\ listener_pc' = "dispatch"
    /\ before' = known_peers
    /\ UNCHANGED << username, known_peers, sock, discovery_pc, main_pc, wire,
                    departed, shown, welcomed, first_key, late >>

\* recvfrom returns a datagram of another sender of the group
RecvForeign ==
    /\ Alive /\ listener_pc = "recv" /\ sock = "open"
    /\ \E d \in Datagrams : payload' = d
    /\ caught' = "none"
    /\ out' = NoLine
    /\ listener_pc' = "dispatch"
    /\ before' = known_peers
    /\ UNCHANGED << username, known_peers, sock, discovery_pc, main_pc, wire,
                    departed, shown, welcomed, first_key, late >>

\* recvfrom on the closed socket raises OSError(EBADF): the except clause
\* passes and the while loop goes round again (any other errno would take
\* the same way out of the except clause)
RecvOSError ==
    /\ Alive /\ listener_pc = "recv" /\ sock = "closed"
    /\ caught' = "EBADF"
    /\ UNCHANGED << username, known_peers, sock, listener_pc, payload, out,
                    discovery_pc, main_pc, wire, hist >>

\* names with a LEAVE handled and no JOIN handled since, after a pass on datagram d
Departed(dep, d) ==
    IF d.shape = "ok" /\ d.mtype = "LEAVE" /\ d.f2.kind = "raw" THEN dep \cup { d.f2.str }
    ELSE IF d.shape = "ok" /\ d.mtype = "JOIN" /\ DecryptOk(d.f2, d.f3) /\ DecryptOk(d.f4, d.f5)
         THEN dep \ { d.f2.str }
    ELSE dep

\* names a chat line was displayed for, after a pass that printed line
Shown(sh, line) ==
    IF line.kind = "chat" THEN sh \cup { SplitFirst(line.text) } ELSE sh

\* names welcomed and not named by a handled LEAVE since, after a pass on
\* datagram d that printed line
Welcomed(w, d, line) ==
    IF line.kind = "welcome" THEN w \cup { line.text }
    ELSE IF d.shape = "ok" /\ d.mtype = "LEAVE" /\ d.f2.kind = "raw" THEN w \ { d.f2.str }
    ELSE w

\* the key of the first JOIN handled for each name since the last LEAVE
\* naming it, after a pass on datagram d
FirstKey(fk, d) ==
    IF d.shape = "ok" /\ d.mtype = "LEAVE" /\ d.f2.kind = "raw" THEN Delete(fk, d.f2.str)
    ELSE IF /\ d.shape = "ok" /\ d.mtype = "JOIN"
            /\ DecryptOk(d.f2, d.f3) /\ DecryptOk(d.f4, d.f5)
            /\ d.f2.str \notin DOMAIN fk
         THEN Store(fk, d.f2.str, d.f4.key)
    ELSE fk

\* the types sent after the LEAVE, after a send of a datagram of type t
Late(l, w, me, t) == IF LeaveMsg(me) \in w THEN l \cup { t } ELSE l

\* a CHAT that decrypts, is not the node's own line, and whose sender passes
\* the test `sender_username not in known_peers`
PassesMembership(d, peers, me) ==
    /\ d.shape = "ok" /\ d.mtype = "CHAT" /\ DecryptOk(d.f2, d.f3)
    /\ ~ StartsWith(d.f2.str, me \o Sep)
    /\ sender_username(d) \in DOMAIN peers

\* Dispatch whose exception handler also closes the socket before it breaks
Dispatch_ClosesOnError ==
    /\ Alive /\ listener_pc = "dispatch"
    /\ IF PassesMembership(payload, known_peers, username)
       THEN /\ listener_pc' = "verify"
            /\ UNCHANGED << known_peers, out, departed, shown, welcomed, first_key, sock >>
       ELSE LET r == Handle(payload, known_peers, username) IN
            /\ known_peers' = r.peers
            /\ out' = r.out
            /\ listener_pc' = r.pc
            /\ departed' = Departed(departed, payload)
            /\ shown' = Shown(shown, r.out)
            /\ welcomed' = Welcomed(welcomed, payload, r.out)
            /\ first_key' = FirstKey(first_key, payload)
            /\ sock' = IF r.pc = "done" THEN "closed" ELSE sock
    /\ UNCHANGED << username, payload, caught, discovery_pc, main_pc, wire, before, late >>

\* the loop body on the received payload; for a CHAT of a known sender, up
\* to the membership test
Dispatch ==
    /\ Alive /\ listener_pc = "dispatch"
    /\ IF PassesMembership(payload, known_peers, username)
       THEN /\ listener_pc' = "verify"
            /\ UNCHANGED << known_peers, out, departed, shown, welcomed, first_key >>
       ELSE LET r == Handle(payload, known_peers, username) IN
            /\ known_peers' = r.peers
            /\ out' = r.out
            /\ listener_pc' = r.pc
            /\ departed' = Departed(departed, payload)
            /\ shown' = Shown(shown, r.out)
            /\ welcomed' = Welcomed(welcomed, payload, r.out)
            /\ first_key' = FirstKey(first_key, payload)
    /\ UNCHANGED << username, sock, payload, caught, discovery_pc, main_pc, wire,
                    before, late >>

\* the key read known_peers[sender_username] and the signature check; a
\* missing key raises KeyError, which `except Exception` catches
VerifyChat ==
    /\ Alive /\ listener_pc = "verify"
    /\ LET r == IF sender_username(payload) \notin DOMAIN known_peers
                THEN Broken(known_peers)
                ELSE HandleChat(payload, known_peers, username) IN
         /\ known_peers' = r.peers
         /\ out' = r.out
         /\ listener_pc' = r.pc
         /\ shown' = Shown(shown, r.out)
    /\ UNCHANGED << username, sock, payload, caught, discovery_pc, main_pc, wire,
                    before, departed, welcomed, first_key, late >>

\* ------------------------------------------------------ discovery_loop
\* pack, pickle and sendto succeed; then sleep 3 s
DiscoverySend ==
    /\ Alive /\ discovery_pc = "run" /\ sock = "open"
    /\ wire' = wire \cup { JoinMsg(username, OwnKey) }
    /\ late' = Late(late, wire, username, "JOIN")
    /\ UNCHANGED << username, known_peers, sock, listener_pc, payload, caught, out,
                    discovery_pc, main_pc, before, departed, shown, welcomed, first_key >>

\* pack_data or sendto raises (always on the closed socket): print, break
DiscoveryFail ==
    /\ Alive /\ discovery_pc = "run"
    /\ discovery_pc' = "done"
    /\ UNCHANGED << username, known_peers, sock, listener_pc, payload, caught, out,
                    main_pc, wire, hist >>

\* --------------------------------------------------------- main thread
\* a line that is not "exit": format, pack, pickle, sendto
MainChat ==
    /\ main_pc = "input"
    /\ \E t \in Texts : wire' = wire \cup { ChatMsg(username \o Sep \o t, OwnKey) }
    /\ late' = Late(late, wire, username, "CHAT")
    /\ UNCHANGED << username, known_peers, sock, listener_pc, payload, caught, out,
                    discovery_pc, main_pc, before, departed, shown, welcomed, first_key >>

\* sendto raises socket.error: print, break
MainChatFail ==
    /\ main_pc = "input"
    /\ main_pc' = "wait"
    /\ UNCHANGED << username, known_peers, sock, listener_pc, payload, caught, out,
                    discovery_pc, wire, hist >>

\* the line is "exit": break
MainExitCmd ==
    /\ main_pc = "input"
    /\ main_pc' = "wait"
    /\ UNCHANGED << username, known_peers, sock, listener_pc, payload, caught, out,
                    discovery_pc, wire, hist >>

\* KeyboardInterrupt inside the try block
MainInterrupt ==
    /\ main_pc = "input"
    /\ main_pc' = "wait"
    /\ UNCHANGED << username, known_peers, sock, listener_pc, payload, caught, out,
                    discovery_pc, wire, hist >>

\* threading.Event().wait(1)
MainWait ==
    /\ main_pc = "wait"
    /\ main_pc' = "leave"
    /\ UNCHANGED << username, known_peers, sock, listener_pc, payload, caught, out,
                    discovery_pc, wire, hist >>

\* a shutdown that empties the dictionary from the main thread as it sends the LEAVE
MainLeave_ClearsPeers ==
    /\ main_pc = "leave"
    /\ wire' = wire \cup { LeaveMsg(username) }
    /\ main_pc' = "close"
    /\ known_peers' = EmptyPeers
    /\ UNCHANGED << username, sock, listener_pc, payload, caught, out,
                    discovery_pc, hist >>

\* sendto of the LEAVE payload
MainLeave ==
    /\ main_pc = "leave"
    /\ wire' = wire \cup { LeaveMsg(username) }
    /\ main_pc' = "close"
    /\ UNCHANGED << username, known_peers, sock, listener_pc, payload, caught, out,
                    discovery_pc, hist >>

\* client_socket.close()
MainClose ==
    /\ main_pc = "close"
    /\ sock' = "closed"
    /\ main_pc' = "closed"
    /\ UNCHANGED << username, known_peers, listener_pc, payload, caught, out,
                    discovery_pc, wire, hist >>

\* an exception nothing catches ends the main thread: EOFError of input or
\* an error of pack_data in the loop, KeyboardInterrupt or an OSError of
\* sendto after it
MainAbort ==
    /\ main_pc \in {"input", "wait", "leave", "close"}
    /\ main_pc' = IF main_pc = "input" THEN "crashed" ELSE "aborted"
    /\ UNCHANGED << username, known_peers, sock, listener_pc, payload, caught, out,
                    discovery_pc, wire, hist >>

\* the script ends: the interpreter exits and takes the daemon threads along
ProcessExit ==
    /\ main_pc = "closed"
    /\ main_pc' = "exited"
    /\ UNCHANGED << username, known_peers, sock, listener_pc, payload, caught, out,
                    discovery_pc, wire, hist >>

Next ==
    \/ RecvLoopback
    \/ RecvForeign
    \/ RecvOSError
    \/ Dispatch
    \/ VerifyChat
    \/ DiscoverySend
    \/ DiscoveryFail
    \/ MainChat
    \/ MainChatFail
    \/ MainExitCmd
    \/ MainInterrupt
    \/ MainWait
    \/ MainLeave
    \/ MainClose
    \/ MainAbort
    \/ ProcessExit

Spec == Init /\ [][Next]_vars

TypeOK ==
    /\ username \in LocalNames
    /\ DOMAIN known_peers \subseteq Names
    /\ \A u \in DOMAIN known_peers : known_peers[u] \in Keys
    /\ sock \in {"open", "closed"}
    /\ listener_pc \in {"recv", "dispatch", "verify", "done"}
    /\ payload \in Datagrams \cup { NoPayload }
    /\ caught \in {"none", "EBADF"}
    /\ discovery_pc \in {"run", "done"}
    /\ main_pc \in {"input", "wait", "leave", "close", "closed",
                   "exited", "crashed", "aborted"}
    /\ wire \subseteq Datagrams
    /\ departed \subseteq Names
    /\ shown \subseteq Names
    /\ welcomed \subseteq Names
    /\ DOMAIN first_key \subseteq Names
    /\ \A u \in DOMAIN first_key : first_key[u] \in Keys
    /\ late \subseteq {"JOIN", "CHAT"}

\* ------------------------------------------------------------- claims
\* the listener has finished its pass over the payload it holds
Handled == listener_pc \in {"recv", "done"} /\ payload # NoPayload

\* a datagram that fails structural decoding or whose ciphertext fails to decrypt
Undecodable(d) ==
    \/ d.shape \in {"truncated", "arity", "typeconfused"}
    \/ d.shape = "ok" /\ d.mtype = "CHAT" /\ ~ DecryptOk(d.f2, d.f3)
    \/ d.shape = "ok" /\ d.mtype = "JOIN"
          /\ (~ DecryptOk(d.f2, d.f3) \/ ~ DecryptOk(d.f4, d.f5))

\* C1: in every reachable state the peer dictionary has no entry keyed by
\* the node's own username.
C1_NoLocalEntry == username \notin DOMAIN known_peers

\* C2: after a datagram that fails structural decoding or decryption has been
\* handled, the receive loop is still running (it has not left its loop), so
\* later datagrams are still received and dispatched.
C2_DropAndContinue ==
    (Handled /\ Undecodable(payload)) => listener_pc = "recv"

\* C10: once a receive has failed with the closed-socket error (EBADF), the
\* receive loop has terminated and so makes no further receive attempt.
C10_ClosedReceiveTerminates ==
    caught = "EBADF" => listener_pc = "done"

\* the step in which the listener finishes the loop body on its payload
Pass == listener_pc \in {"dispatch", "verify"} /\ listener_pc' \in {"recv", "done"}

\* payload is a CHAT that decrypts to a line
IsChat(d) == d.shape = "ok" /\ d.mtype = "CHAT" /\ DecryptOk(d.f2, d.f3)

\* payload is a JOIN whose username and key both decrypt
IsJoin(d) ==
    d.shape = "ok" /\ d.mtype = "JOIN" /\ DecryptOk(d.f2, d.f3) /\ DecryptOk(d.f4, d.f5)

\* payload is a LEAVE whose name field decodes
IsLeave(d) == d.shape = "ok" /\ d.mtype = "LEAVE" /\ d.f2.kind = "raw"

\* every entry of dictionary p other than u is in q with the same key, and
\* q has no entry other than u that p lacks
SameExcept(p, q, u) ==
    /\ DOMAIN p \ {u} = DOMAIN q \ {u}
    /\ \A v \in DOMAIN p \ {u} : q[v] = p[v]

\* C3: a chat line is displayed only in a pass over a CHAT whose signature
\* verifies against the key stored for its sender; a CHAT of a known
\* sender other than the local user whose signature does not verify against
\* the stored key displays nothing and leaves the dictionary as it was.
C3_BadSignatureDropped ==
    [][ Pass =>
          /\ out'.kind = "chat" =>
                /\ IsChat(payload)
                /\ out'.text = payload.f2.str
                /\ sender_username(payload) \in DOMAIN known_peers
                /\ payload.f4.kind = "sig"
                /\ payload.f4.key = known_peers[sender_username(payload)]
                /\ payload.f4.str = payload.f2.str
          /\ ( /\ IsChat(payload)
               /\ sender_username(payload) # username
               /\ sender_username(payload) \in DOMAIN known_peers
               /\ ~ ( /\ payload.f4.kind = "sig"
                      /\ payload.f4.key = known_peers[sender_username(payload)]
                      /\ payload.f4.str = payload.f2.str ) )
             => (out' = NoLine /\ known_peers' = known_peers)
      ]_vars

\* a CHAT of known sender b, signed by a key other than the stored one, was dropped
C3_Witness ==
    /\ listener_pc = "recv" /\ IsChat(payload)
    /\ sender_username(payload) = <<"b">>
    /\ <<"b">> \in DOMAIN before
    /\ payload.f4.kind = "sig" /\ payload.f4.str = payload.f2.str
    /\ payload.f4.key # before[<<"b">>]
    /\ out = NoLine /\ known_peers = before

\* C4: a CHAT whose sender prefix is not a key of the dictionary when it is
\* handled displays nothing and leaves the dictionary as it was; and a pass
\* over anything but a CHAT never displays a chat line (no CHAT is kept back
\* to be displayed by a later JOIN).
C4_UnknownSenderDropped ==
    [][ Pass =>
          /\ (IsChat(payload) /\ sender_username(payload) \notin DOMAIN known_peers)
                => (out' = NoLine /\ known_peers' = known_peers)
          /\ ~ IsChat(payload) => out'.kind # "chat"
      ]_vars

\* a correctly signed CHAT of b was dropped because b was not in the dictionary
C4_Witness ==
    /\ listener_pc = "recv" /\ IsChat(payload)
    /\ payload.f2.str = <<"b">> \o Sep \o <<"x">>
    /\ payload.f4 = Sign(2, payload.f2.str)
    /\ <<"b">> \notin DOMAIN before
    /\ out = NoLine /\ known_peers = before

\* C5: a JOIN announcing (u, k), u not the local username and absent from the
\* dictionary, binds u to k and changes no other entry.
C5_JoinAdds ==
    [][ Pass =>
          \A u \in Names \ {username}, k \in Keys :
             (IsJoin(payload) /\ payload.f2.str = u /\ payload.f4.key = k
                 /\ u \notin DOMAIN known_peers)
             => /\ u \in DOMAIN known_peers'
                /\ known_peers'[u] = k
                /\ SameExcept(known_peers, known_peers', u)
      ]_vars

\* b was added with key 2 to a dictionary that held another entry, which it still holds
C5_Witness ==
    /\ listener_pc = "recv" /\ payload = JoinMsg(<<"b">>, 2)
    /\ <<"b">> \notin DOMAIN before /\ DOMAIN before # {}
    /\ <<"b">> \in DOMAIN known_peers /\ known_peers[<<"b">>] = 2
    /\ out = Line("welcome", <<"b">>)

\* C6: a JOIN for a username that is already in the dictionary leaves the
\* whole dictionary as it was, whatever key it carries.
C6_JoinKnownIsNoOp ==
    [][ Pass =>
          ((IsJoin(payload) /\ payload.f2.str \in DOMAIN known_peers)
              => known_peers' = known_peers)
      ]_vars

\* a JOIN for b carrying key 1 was handled while b was bound to key 2, and b still is
C6_Witness ==
    /\ listener_pc = "recv" /\ payload = JoinMsg(<<"b">>, 1)
    /\ <<"b">> \in DOMAIN before /\ before[<<"b">>] = 2
    /\ <<"b">> \in DOMAIN known_peers /\ known_peers[<<"b">>] = 2
    /\ out = NoLine

\* C7: after a LEAVE naming u, u is not in the dictionary and every other
\* entry is as before; if u was not in it, the dictionary is as before.
C7_LeaveRemoves ==
    [][ Pass =>
          \A u \in Names :
             (IsLeave(payload) /\ payload.f2.str = u)
             => /\ u \notin DOMAIN known_peers'
                /\ SameExcept(known_peers, known_peers', u)
                /\ u \notin DOMAIN known_peers => known_peers' = known_peers
      ]_vars

\* a LEAVE naming b removed b and kept the other entry
C7_Witness ==
    /\ listener_pc = "recv" /\ payload = LeaveMsg(<<"b">>)
    /\ <<"b">> \in DOMAIN before
    /\ <<"b">> \notin DOMAIN known_peers
    /\ DOMAIN known_peers # {}
    /\ out = Line("left", <<"b">>)

\* C8: a CHAT whose sender prefix equals the local username displays nothing
\* and leaves the dictionary as it was, whatever its signature and whether or
\* not the local username is in the dictionary.
C8_SelfSuppressed ==
    [][ Pass =>
          ((IsChat(payload) /\ sender_username(payload) = username)
              => (out' = NoLine /\ known_peers' = known_peers))
      ]_vars

\* C9: a chat line with sender prefix u is never displayed while a LEAVE
\* naming u has been handled and no JOIN for u since; a correctly signed CHAT
\* of a known sender other than the local user is displayed.
C9_NoChatAfterLeave ==
    [][ Pass =>
          /\ out'.kind = "chat" => sender_username(payload) \notin departed
          /\ ( /\ IsChat(payload)
               /\ sender_username(payload) # username
               /\ sender_username(payload) \in DOMAIN known_peers
               /\ payload.f4 = Sign(known_peers[sender_username(payload)], payload.f2.str) )
             => out' = Line("chat", payload.f2.str)
      ]_vars

\* JOIN, CHAT, LEAVE, CHAT: a chat line of b was displayed, then a LEAVE
\* naming b was handled, and now a signed CHAT of b has been dropped
C9_Witness ==
    /\ listener_pc = "recv" /\ IsChat(payload)
    /\ sender_username(payload) = <<"b">>
    /\ payload.f4 \in { Sign(k, payload.f2.str) : k \in Keys }
    /\ <<"b">> \in shown /\ <<"b">> \in departed
    /\ out = NoLine

\* C11: while the main thread has not left its input loop (no shutdown has
\* begun), the discovery loop has not terminated.
C11_DiscoveryKeepsRunning ==
    main_pc = "input" => discovery_pc = "run"

\* ------------------------------------------------------------ fairness
\* the JOIN that peer "b" broadcasts every 3 s with its key
PeerJoin == JoinMsg(<<"b">>, 2)

\* recvfrom returns a JOIN of peer "b"
RecvPeerJoin == RecvForeign /\ payload' = PeerJoin

\* The listener thread is scheduled whenever it can run, and of the JOINs
\* that peer "b" keeps broadcasting the transport does not drop all: as
\* long as the listener keeps coming back to recvfrom, it receives one again.
FairSpec == Spec /\ WF_vars(Dispatch) /\ WF_vars(VerifyChat) /\ SF_vars(RecvPeerJoin)

\* C12: under fair delivery of the JOINs of peer "b", a node that does not
\* begin its own shutdown eventually holds "b" with the key of "b" in its
\* dictionary, whatever else it receives.
C12_JoinSelfHeals ==
    <>( \/ main_pc # "input"
        \/ (<<"b">> \in DOMAIN known_peers /\ known_peers[<<"b">>] = 2) )

\* C13: the socket is never closed before the LEAVE naming the local
\* username has been sent, and a process that ended after its send loop took
\* a shutdown path (exit command, interrupt, failed CHAT send) has sent that
\* LEAVE and closed the socket.
C13_LeaveThenRelease ==
    /\ sock = "closed" => LeaveMsg(username) \in wire
    /\ main_pc \in {"exited", "aborted"}
          => (LeaveMsg(username) \in wire /\ sock = "closed")

\* C14: the main thread leaves its input loop for the shutdown sequence only
\* by its own exit command, interrupt or failed send; a step that moves the
\* main thread or closes the socket is no step of the listener or of the
\* discovery loop; and while the main thread is in its input loop the socket
\* is open and a further CHAT can be sent, whatever the other two threads
\* have received or however they have ended.
C14_OnlySendLoopShutsDown ==
    /\ [][ /\ (main_pc' # main_pc \/ sock' # sock)
                => UNCHANGED << listener_pc, payload, known_peers, out, caught, discovery_pc >>
           /\ (main_pc = "input" /\ main_pc' = "wait")
                => (MainChatFail \/ MainExitCmd \/ MainInterrupt)
           /\ main_pc' = "input" => sock' = "open"
         ]_vars
    /\ [](main_pc = "input" => ENABLED MainChat)

\* both daemon threads have ended and the main thread, having sent a CHAT,
\* is still at its prompt with the socket open
C14_Witness ==
    /\ listener_pc = "done" /\ discovery_pc = "done"
    /\ main_pc = "input" /\ sock = "open"
    /\ ChatMsg(username \o Sep \o [i \in 1 .. TextLen |-> "x"], OwnKey) \in wire

\* C15: every step that changes known_peers is a step of the listener's loop
\* body (the main thread, the discovery loop, the wire and the socket stand
\* still in it) and is one of two: the pass over a JOIN whose username and
\* key both decrypt, which adds exactly that username bound to that key, or
\* the pass over a LEAVE whose name decodes, which deletes exactly that
\* name. CHATs, unknown types and failed messages change nothing.
C15_OnlyJoinAddsOnlyLeaveRemoves ==
    [][ known_peers' # known_peers =>
          /\ Pass
          /\ UNCHANGED << discovery_pc, main_pc, wire, sock >>
          /\ \/ /\ IsJoin(payload)
                /\ payload.f2.str \notin DOMAIN known_peers
                /\ known_peers' = Store(known_peers, payload.f2.str, payload.f4.key)
             \/ /\ IsLeave(payload)
                /\ payload.f2.str \in DOMAIN known_peers
                /\ known_peers' = Delete(known_peers, payload.f2.str)
      ]_vars

\* the discovery loop has announced and the main thread has sent a CHAT,
\* both leaving the dictionary empty; the listener's pass over a JOIN for b
\* with key 1 then made the only entry
C15_Witness ==
    /\ listener_pc = "recv" /\ payload = JoinMsg(<<"b">>, 1)
    /\ before = EmptyPeers
    /\ known_peers = Store(EmptyPeers, <<"b">>, 1)
    /\ JoinMsg(username, OwnKey) \in wire
    /\ \E d \in wire : d.mtype = "CHAT"

\* C16: in every interleaving of the three threads, the dictionary the
\* listener works on in the middle of a pass is the one it had when the pass
\* began (no step of another thread adds, removes or rebinds an entry, so no
\* add or remove of the listener is overwritten); between the membership
\* test of a CHAT and the key read that follows it the sender's entry is
\* still there with the same key, and the key read never raises.
C16_NoLostUpdateNoTornRead ==
    /\ [](listener_pc \in {"dispatch", "verify"} => known_peers = before)
    /\ [](listener_pc = "verify" => sender_username(payload) \in DOMAIN known_peers)
    /\ [][ /\ ~ Pass => known_peers' = known_peers
           /\ listener_pc = "verify" => out'.kind # "error"
         ]_vars

\* the listener stands between the membership test and the key read of a
\* CHAT of b while the main thread has sent its LEAVE and closed the socket
\* and the discovery loop has ended
C16_Witness ==
    /\ listener_pc = "verify"
    /\ sender_username(payload) = <<"b">>
    /\ LeaveMsg(username) \in wire
    /\ sock = "closed" /\ discovery_pc = "done"

\* C17: the pass over a well-formed five-field datagram whose message type
\* is none of JOIN, CHAT and LEAVE prints the unknown-type notice, displays
\* no chat line, leaves the dictionary as it was, and returns the listener to
\* its receive.
C17_UnknownTypeDiscarded ==
    [][ (Pass /\ payload.shape = "ok" /\ payload.mtype \notin {"JOIN", "CHAT", "LEAVE"})
          => /\ known_peers' = known_peers
             /\ out' = Line("unknown", <<>>)
             /\ shown' = shown
             /\ listener_pc' = "recv"
      ]_vars

\* a datagram of an unknown type was handled with b in the dictionary, and
\* the listener is back at its receive with the dictionary as it was
C17_Witness ==
    /\ listener_pc = "recv" /\ payload.shape = "ok"
    /\ payload.mtype \notin {"JOIN", "CHAT", "LEAVE"}
    /\ out = Line("unknown", <<>>)
    /\ <<"b">> \in DOMAIN known_peers /\ known_peers = before

\* C18: a pass prints the welcome for u exactly when it is the pass over a
\* JOIN for u that adds u to the dictionary; a JOIN for a name already there
\* prints nothing; no other step puts a welcome on the screen; and a welcome is never
\* printed for a name that was already welcomed with no LEAVE naming it
\* handled since (at most one welcome between two LEAVEs for u).
C18_WelcomeOncePerJoin ==
    [][ /\ Pass =>
              /\ out'.kind = "welcome"
                    <=> ( /\ IsJoin(payload)
                          /\ payload.f2.str \notin DOMAIN known_peers
                          /\ payload.f2.str \in DOMAIN known_peers' )
              /\ out'.kind = "welcome"
                    => (out'.text = payload.f2.str /\ out'.text \notin welcomed)
              /\ (IsJoin(payload) /\ payload.f2.str \in DOMAIN known_peers)
                    => out' = NoLine
        /\ ~ Pass => (out'.kind = "welcome" => out' = out)
      ]_vars

\* b was welcomed, a second JOIN for b has been handled without a welcome,
\* and no LEAVE naming b came between
C18_Witness ==
    /\ listener_pc = "recv" /\ IsJoin(payload) /\ payload.f2.str = <<"b">>
    /\ <<"b">> \in welcomed /\ <<"b">> \in DOMAIN before
    /\ out = NoLine
    /\ before[<<"b">>] = payload.f4.key

\* C19: once the node has sent its LEAVE it sends no further JOIN and no
\* further CHAT, in any interleaving of the discovery loop's periodic send
\* with the main thread's wait, LEAVE send and close.
C19_NothingSentAfterLeave == late = {}

\* C20: a pass that displays a CHAT with sender prefix u does so for a
\* signature that verifies against the key of the first JOIN for u handled
\* since the last LEAVE naming u (or since startup); the key the dictionary
\* binds to u is always that key; and no step changes the key of a name that
\* is in the dictionary before and after it.
C20_FirstJoinKeyBinds ==
    /\ [](known_peers = first_key)
    /\ [][ /\ (Pass /\ out'.kind = "chat")
                => /\ sender_username(payload) \in DOMAIN first_key
                   /\ verify_signature(first_key[sender_username(payload)],
                                       payload.f4, payload.f2.str)
           /\ \A u \in DOMAIN known_peers \cap DOMAIN known_peers' :
                 known_peers'[u] = known_peers[u]
         ]_vars

\* a CHAT of b signed with key 1 was displayed while b was bound to key 1,
\* the key of the first JOIN handled for b
C20_Witness ==
    /\ listener_pc = "recv" /\ IsChat(payload) /\ out.kind = "chat"
    /\ sender_username(payload) = <<"b">>
    /\ <<"b">> \in DOMAIN first_key /\ first_key[<<"b">>] = 1
    /\ payload.f4 = Sign(1, payload.f2.str)

====
